---- MODULE Spec2Model ----
(***************************************************************************)
(* Model of coco's pull-images command (src/coco/coco.py): one             *)
(* coordinating thread submits one pull per line of the images file to a   *)
(* ThreadPoolExecutor, then polls the futures, updates the status table    *)
(* and renders it until every tracked future is done.                      *)
(* The second part models the two commands as seen from the shell:         *)
(* extract-images writing the images file and pull-images reading it.      *)
(* Text is a sequence of one-character strings.                            *)
(***************************************************************************)
EXTENDS Integers, Sequences, FiniteSets, TLC

\* ---------------------------------------------------------------- bounds
\* Longest images file (number of non-blank lines) explored under Spec.
MaxLines == 3

\* Longest images file explored under FairSpec.
MaxFairLines == 2

\* The history counter `late` stops counting here.
MaxLate == 2

\* Most services in a resolved compose document.
MaxServices == 3

\* Image references that may appear on a line or in a service.
Images == {<<"a">>, <<"b">>}

\* Return codes of `docker pull` (0 = pulled, 1 = failed).
ExitCodes == {0, 1}

\* os.cpu_count() of the host, as seen by ThreadPoolExecutor().
cpu_count == 1

Min(x, y) == IF x < y THEN x ELSE y

\* ThreadPoolExecutor() without max_workers: min(32, cpu_count + 4).
max_workers == Min(32, cpu_count + 4)

\* What the host answers to one call of pull_image: what shutil.which("docker")
\* returns, and the code `docker pull` exits with when it is run.
DockerPath == "/usr/bin/docker"
None == "None"
NoDocker == [which |-> None, returncode |-> 1]
World == {[which |-> DockerPath, returncode |-> c] : c \in ExitCodes} \cup {NoDocker}

VARIABLES
    images,     \* the non-blank, stripped lines of the images file, in order
    world,      \* world[f]: the host's answer to the f-th submitted pull
    future,     \* future[f]: "none" | "pending" | "running" | "finished"
    keys,       \* insertion order of the keys of the dict `tasks`
    tasks,      \* tasks[image] = [future |-> f, status |-> ...]
    pc,         \* position of the coordinating thread in pull_images
    j,          \* index of the loop the coordinating thread is in
    live,       \* what Live currently displays: [title, table]
    raised,     \* an exception is propagating out of pull_images
    exit_code,  \* exit code of the process once pc = "exited"
    late,       \* history: late[k] counts the tables rendered after the pull
                \* of row k completed that show row k as Running
    file,       \* content of the images file (images.txt), or NoFile
    run,        \* history: the command run last, its inputs and its output
    console     \* what the command run last printed with console.print

\* What the pull engine leaves alone.
cli == <<file, run, console>>

vars == <<images, world, future, keys, tasks, pc, j, live, raised, exit_code,
          late, cli>>

\* ------------------------------------------------------------- pull_image
\* get_docker_executable: returns the path, or raises RuntimeError when
\* shutil.which returned None.
get_docker_executable(w) == [raises |-> w.which = None, docker_exe |-> w.which]

\* pull_image: the CompletedProcess it returns, or the exception it raises.
pull_image(w) ==
    IF get_docker_executable(w).raises
    THEN [raises |-> TRUE, returncode |-> 0]
    ELSE [raises |-> FALSE, returncode |-> w.returncode]

\* future.done()
done(f) == future[f] = "finished"

\* future.result() of a finished future.
result(f) == pull_image(world[f])

\* Mutant of StatusOf: the two outcomes swapped.
StatusOfSwapped(ret) == IF ret = 0 THEN "Failed" ELSE "Success"

\* "Success" if ret == 0 else "Failed"
StatusOf(ret) == IF ret = 0 THEN "Success" ELSE "Failed"

\* Mutant of NewTask: the task is created as Pending.
NewTaskPending(f) == [future |-> f, status |-> "Pending"]

\* The task record stored by the dispatch loop.
NewTask(f) == [future |-> f, status |-> "Running"]

\* Mutant of KeysAfterAssign: a reassigned key moves to the end.
KeysMoveToEnd(ks, image) ==
    Append(SelectSeq(ks, LAMBDA x : x # image), image)

\* Key order of the dict after tasks[image] = ...: a new key is appended, an
\* existing key keeps its position.
KeysAfterAssign(ks, image) ==
    IF \E k \in 1..Len(ks) : ks[k] = image THEN ks ELSE Append(ks, image)

\* ------------------------------------------------------ build_status_table
StatusColored(status) ==
    IF status = "Running" THEN "[bold orange1]Running[/bold orange1]"
    ELSE IF status = "Success" THEN "[green]Success[/green]"
    ELSE "[red]Failed[/red]"

build_status_table(ks, ts) ==
    [k \in 1..Len(ks) |->
        [index |-> k, image |-> ks[k], status |-> StatusColored(ts[ks[k]].status)]]

\* sum(1 for data in tasks.values() if data["status"] == "Running")
running_count(ts) == Cardinality({img \in DOMAIN ts : ts[img].status = "Running"})

NoTasks == [img \in {} |-> NewTask(0)]
NoRender == [title |-> "", running |-> 0, table |-> <<>>]

\* ------------------------------------------------------- the images file
\* A path that does not exist, and a file holding text.
NoFile == [exists |-> FALSE, text |-> <<>>]
File(text) == [exists |-> TRUE, text |-> text]

\* Characters that str.strip() removes and that end a line.
Newline == "\n"
Whitespace == {" ", Newline}

\* Concatenation of a sequence of texts.
RECURSIVE Concat(_)
Concat(ts) ==
    IF ts = <<>> THEN <<>> ELSE Head(ts) \o Concat(Tail(ts))

\* Mutant of join: the items are written without a separator.
JoinNoSeparator(sep, items) == Concat(items)

\* sep.join(items)
RECURSIVE join(_, _)
join(sep, items) ==
    IF items = <<>> THEN <<>>
    ELSE IF Len(items) = 1 THEN items[1]
    ELSE items[1] \o sep \o join(sep, Tail(items))

\* Iterating over a text file: the lines, each with its line end.
RECURSIVE file_lines(_)
file_lines(text) ==
    IF text = <<>> THEN <<>>
    ELSE IF \E k \in 1..Len(text) : text[k] = Newline
    THEN LET k == CHOOSE k \in 1..Len(text) :
                    /\ text[k] = Newline
                    /\ \A m \in 1..(k - 1) : text[m] # Newline
         IN <<SubSeq(text, 1, k)>> \o file_lines(SubSeq(text, k + 1, Len(text)))
    ELSE <<text>>

RECURSIVE lstrip(_)
lstrip(t) ==
    IF t # <<>> /\ Head(t) \in Whitespace THEN lstrip(Tail(t)) ELSE t

RECURSIVE rstrip(_)
rstrip(t) ==
    IF t # <<>> /\ t[Len(t)] \in Whitespace
    THEN rstrip(SubSeq(t, 1, Len(t) - 1)) ELSE t

\* line.strip()
strip(t) == lstrip(rstrip(t))

\* Mutant of read_images: blank lines are kept.
read_every_line(text) ==
    [k \in 1..Len(file_lines(text)) |-> strip(file_lines(text)[k])]

\* [line.strip() for line in file if line.strip()]
read_images(text) ==
    SelectSeq([k \in 1..Len(file_lines(text)) |-> strip(file_lines(text)[k])],
              LAMBDA line : line # <<>>)

\* The record of a pull-images run.
NoInput ==
    [compose_file |-> None, existing |-> {}, which |-> None, returncode |-> 0,
     yaml_error |-> FALSE, services |-> <<>>]
PullRun ==
    [cmd |-> "pull-images", input |-> NoInput, written |-> <<>>, repeat |-> FALSE]

\* ------------------------------------------------------------------- Init
\* The state after the images file was read and found non-empty
\* (pull_images, lines 118-129).
InitWith(lines) ==
    /\ images = lines
    /\ world \in [1..Len(lines) -> World]
    /\ future = [f \in 1..Len(lines) |-> "none"]
    /\ keys = <<>>
    /\ tasks = NoTasks
    /\ pc = "dispatch"
    /\ j = 1
    /\ live = NoRender
    /\ raised = FALSE
    /\ exit_code = 0
    /\ late = [k \in 1..Len(lines) |-> 0]
    /\ file = File(join(<<Newline>>, lines))
    /\ run = PullRun
    /\ console = <<>>

Init == \E n \in 1..MaxLines : \E lines \in [1..n -> Images] : InitWith(lines)

\* ------------------------------------------------------------- the workers
NumRunning == Cardinality({f \in DOMAIN future : future[f] = "running"})

\* Mutant of WorkerFree: a thread per work item, no limit.
WorkerAlwaysFree == TRUE

\* A worker thread is free to take a work item.
WorkerFree == NumRunning < max_workers

\* A worker thread takes the oldest queued work item and calls pull_image.
WorkerStart(f) ==
    /\ future[f] = "pending"
    /\ \A g \in 1..(f - 1) : future[g] # "pending"
    /\ WorkerFree
    /\ future' = [future EXCEPT ![f] = "running"]
    /\ UNCHANGED <<images, world, keys, tasks, pc, j, live, raised, exit_code, late, cli>>

\* pull_image returns or raises; the future becomes done.
WorkerFinish(f) ==
    /\ future[f] = "running"
    /\ future' = [future EXCEPT ![f] = "finished"]
    /\ UNCHANGED <<images, world, keys, tasks, pc, j, live, raised, exit_code, late, cli>>

\* ------------------------------------------------- the coordinating thread
\* for image in images: future = executor.submit(...); tasks[image] = {...}
Dispatch ==
    /\ pc = "dispatch"
    /\ future' = [future EXCEPT ![j] = "pending"]
    /\ tasks' = [img \in DOMAIN tasks \cup {images[j]} |->
                    IF img = images[j] THEN NewTask(j) ELSE tasks[img]]
    /\ keys' = KeysAfterAssign(keys, images[j])
    /\ IF j = Len(images)
       THEN pc' = "check" /\ j' = 1
       ELSE pc' = "dispatch" /\ j' = j + 1
    /\ UNCHANGED <<images, world, live, raised, exit_code, late, cli>>

\* Mutant of AllStep: any(...) instead of all(...).
AnyStep(d, k, n) ==
    IF d THEN "true" ELSE IF k = n THEN "false" ELSE "next"

\* Mutant of AllStep: only the first task's future is looked at.
AllStepFirstOnly(d, k, n) ==
    IF ~d THEN "false" ELSE "true"

\* One step of all(...): "false" on the first future that is not done,
\* "true" after the last one, "next" otherwise.
AllStep(d, k, n) ==
    IF ~d THEN "false" ELSE IF k = n THEN "true" ELSE "next"

\* while not all(data["future"].done() for data in tasks.values()):
CheckAllDone ==
    /\ pc = "check"
    /\ LET r == AllStep(done(tasks[keys[j]].future), j, Len(keys)) IN
         /\ pc' = IF r = "false" THEN "update"
                  ELSE IF r = "true" THEN "final_update" ELSE "check"
         /\ j' = IF r = "next" THEN j + 1 ELSE 1
    /\ UNCHANGED <<images, world, future, keys, tasks, live, raised, exit_code, late, cli>>

\* Mutant of SetStatus: a non-zero return code aborts the batch like an
\* exception.
SetStatusAbortsOnFailure(nextpc) ==
    LET img == keys[j]
        res == result(tasks[img].future) IN
    IF res.raises \/ res.returncode # 0
    THEN /\ raised' = TRUE
         /\ pc' = "shutdown"
         /\ j' = 1
         /\ UNCHANGED tasks
    ELSE /\ tasks' = [tasks EXCEPT ![img].status = StatusOf(res.returncode)]
         /\ pc' = IF j = Len(keys) THEN nextpc ELSE pc
         /\ j' = IF j = Len(keys) THEN 1 ELSE j + 1
         /\ UNCHANGED raised

\* The body of both update loops for one task whose result is read.
SetStatus(nextpc) ==
    LET img == keys[j]
        res == result(tasks[img].future) IN
    IF res.raises
    THEN /\ raised' = TRUE
         /\ pc' = "shutdown"
         /\ j' = 1
         /\ UNCHANGED tasks
    ELSE /\ tasks' = [tasks EXCEPT ![img].status = StatusOf(res.returncode)]
         /\ pc' = IF j = Len(keys) THEN nextpc ELSE pc
         /\ j' = IF j = Len(keys) THEN 1 ELSE j + 1
         /\ UNCHANGED raised

SkipTask(nextpc) ==
    /\ pc' = IF j = Len(keys) THEN nextpc ELSE pc
    /\ j' = IF j = Len(keys) THEN 1 ELSE j + 1
    /\ UNCHANGED <<tasks, raised>>

\* Mutant of UpdateStatus: the pass of the loop never updates a status.
UpdateStatusNever ==
    /\ pc = "update"
    /\ SkipTask("render")
    /\ UNCHANGED <<images, world, future, keys, live, exit_code, late, cli>>

\* for image, data in tasks.items():
\*     if data["future"].done() and data["status"] == "Running": ...
UpdateStatus ==
    /\ pc = "update"
    /\ IF done(tasks[keys[j]].future) /\ tasks[keys[j]].status = "Running"
       THEN SetStatus("render")
       ELSE SkipTask("render")
    /\ UNCHANGED <<images, world, future, keys, live, exit_code, late, cli>>

\* The history counter after `table` was rendered: a row counts when it
\* shows Running although the pull of its task has completed.
LateAfter(table) ==
    [k \in DOMAIN late |->
        IF /\ k \in DOMAIN table
           /\ table[k].status = StatusColored("Running")
           /\ done(tasks[keys[k]].future)
        THEN Min(late[k] + 1, MaxLate)
        ELSE late[k]]

\* running = ...; header = ...; live.update(Panel.fit(build_status_table(tasks)))
Render ==
    /\ pc = "render"
    /\ live' = [title |-> IF running_count(tasks) # 0
                          THEN "image(s) still running"
                          ELSE "All pulls finished",
                running |-> running_count(tasks),
                table |-> build_status_table(keys, tasks)]
    /\ pc' = "sleep"
    /\ late' = LateAfter(live'.table)
    /\ UNCHANGED <<images, world, future, keys, tasks, j, raised, exit_code, cli>>

\* time.sleep(0.2)
Sleep ==
    /\ pc = "sleep"
    /\ pc' = "check"
    /\ j' = 1
    /\ UNCHANGED <<images, world, future, keys, tasks, live, raised, exit_code, late, cli>>

\* Final update: if data["status"] == "Running": ret = future.result()...
\* result() blocks until the future is done.
FinalUpdate ==
    /\ pc = "final_update"
    /\ IF tasks[keys[j]].status = "Running"
       THEN /\ done(tasks[keys[j]].future)
            /\ SetStatus("final_render")
       ELSE SkipTask("final_render")
    /\ UNCHANGED <<images, world, future, keys, live, exit_code, late, cli>>

FinalRender ==
    /\ pc = "final_render"
    /\ live' = [title |-> "All pulls finished",
                running |-> 0,
                table |-> build_status_table(keys, tasks)]
    /\ pc' = "final_sleep"
    /\ late' = LateAfter(live'.table)
    /\ UNCHANGED <<images, world, future, keys, tasks, j, raised, exit_code, cli>>

\* time.sleep(1), then Live.__exit__
FinalSleep ==
    /\ pc = "final_sleep"
    /\ pc' = "shutdown"
    /\ UNCHANGED <<images, world, future, keys, tasks, j, live, raised, exit_code, late, cli>>

\* Mutant of ShutdownReady: shutdown(wait=False).
ShutdownNoWait == TRUE

\* ThreadPoolExecutor.__exit__ is shutdown(wait=True): it returns once every
\* submitted work item has run.
ShutdownReady == \A f \in DOMAIN future : future[f] \in {"none", "finished"}

\* Mutant of ExitCode: a failed pull makes the command fail.
ExitCodeReflectsFailures ==
    IF raised \/ \E img \in DOMAIN tasks : tasks[img].status = "Failed"
    THEN 1 ELSE 0

\* The process exit code: 1 when an exception propagated out of pull_images,
\* 0 when the function returned.
ExitCode == IF raised THEN 1 ELSE 0

\* Leaving the with-blocks, normally or with an exception propagating.
Shutdown ==
    /\ pc = "shutdown"
    /\ ShutdownReady
    /\ pc' = "exited"
    /\ exit_code' = ExitCode
    /\ UNCHANGED <<images, world, future, keys, tasks, j, live, raised, late, cli>>

Coordinator ==
    \/ Dispatch
    \/ CheckAllDone
    \/ UpdateStatus
    \/ Render
    \/ Sleep
    \/ FinalUpdate
    \/ FinalRender
    \/ FinalSleep
    \/ Shutdown

Workers == \E f \in DOMAIN future : WorkerStart(f) \/ WorkerFinish(f)

Next == Coordinator \/ Workers

Spec == Init /\ [][Next]_vars

InitFair ==
    \E n \in 1..MaxFairLines : \E lines \in [1..n -> Images] : InitWith(lines)

\* The coordinating thread and the worker threads keep being scheduled.
FairSpec ==
    InitFair /\ [][Next]_vars /\ WF_vars(Coordinator) /\ WF_vars(Workers)

\* An images file with one line more than the executor has worker threads.
PoolLines == [f \in 1..(max_workers + 1) |-> IF f = 1 THEN <<"a">> ELSE <<"b">>]

InitPool == InitWith(PoolLines)

SpecPool == InitPool /\ [][Next]_vars

\* ========================================================= the two commands
\* ----------------------------------------------------------- extract-images
\* utils.find_compose_file: the first standard name that exists.
standard_files ==
    <<"compose.yaml", "compose.yml", "docker-compose.yaml", "docker-compose.yml">>

find_compose_file(existing) ==
    IF \E k \in 1..Len(standard_files) : standard_files[k] \in existing
    THEN LET k == CHOOSE k \in 1..Len(standard_files) :
                    /\ standard_files[k] \in existing
                    /\ \A m \in 1..(k - 1) : standard_files[m] \notin existing
         IN standard_files[k]
    ELSE None

\* A service of the resolved document, with or without an image.
NoImage == [build |-> "."]
Services == {NoImage} \cup {[image |-> ref] : ref \in Images}

\* The values of the services mapping, in document order.
ServiceSeqs == UNION {[1..n -> Services] : n \in 0..MaxServices}

\* [service.get("image") for service in services.values() if "image" in service]
declared_images(services) ==
    LET with_image == SelectSeq(services, LAMBDA sv : "image" \in DOMAIN sv)
    IN [k \in 1..Len(with_image) |-> with_image[k].image]

\* Mutant of dict_fromkeys: the list is kept as it is.
keep_all(items) == items

\* list(dict.fromkeys(items))
RECURSIVE dict_fromkeys(_)
dict_fromkeys(items) ==
    IF items = <<>> THEN <<>>
    ELSE KeysAfterAssign(dict_fromkeys(SubSeq(items, 1, Len(items) - 1)),
                         items[Len(items)])

\* Mutant of resolve_failed: only a negative return code counts.
resolve_failed_if_negative(returncode) == returncode < 0

\* if result.returncode != 0
resolve_failed(returncode) == returncode # 0

\* Mutant of no_images: the check is missing.
no_images_never(imgs) == FALSE

\* if not images
no_images(imgs) == imgs = <<>>

\* Mutant of write_file: the file is opened with "a".
append_file(old, text) == File(old.text \o text)

\* output_file.open("w") and file.write(text)
write_file(old, text) == File(text)

MsgNoCompose == "No Docker Compose file found in the current directory."
MsgUsing == "No compose file specified. Using <compose_file>"
MsgNoDocker == "RuntimeError: Docker executable not found in PATH."
MsgConvert == "Error running 'docker compose convert': <stderr>"
MsgYaml == "Error parsing YAML: <e>"
MsgNoImages == "No images found in the Compose file."
MsgExtracted == "Image names extracted to <output_file>"
MsgNoFile == "The file <images_file> does not exist."
MsgNoPull == "No images to pull."

\* extract_images on the inputs inp with the output file holding old: the
\* exit code, the messages printed, the output file afterwards and the list
\* written to it.
extract_images(inp, old) ==
    LET compose_file == IF inp.compose_file = None
                        THEN find_compose_file(inp.existing)
                        ELSE inp.compose_file
        said == IF inp.compose_file = None THEN <<MsgUsing>> ELSE <<>>
        imgs == declared_images(inp.services)
        unique_images == dict_fromkeys(imgs)
        Fail(msg) == [exit_code |-> 1, console |-> Append(said, msg),
                      file |-> old, written |-> <<>>]
    IN
    IF compose_file = None
    THEN [exit_code |-> 1, console |-> <<MsgNoCompose>>, file |-> old,
          written |-> <<>>]
    ELSE IF get_docker_executable(inp).raises THEN Fail(MsgNoDocker)
    ELSE IF resolve_failed(inp.returncode) THEN Fail(MsgConvert)
    ELSE IF inp.yaml_error THEN Fail(MsgYaml)
    ELSE IF no_images(imgs)
    THEN [exit_code |-> 0, console |-> Append(said, MsgNoImages), file |-> old,
          written |-> <<>>]
    ELSE [exit_code |-> 0, console |-> Append(said, MsgExtracted),
          file |-> write_file(old, join(<<Newline>>, unique_images)),
          written |-> unique_images]

\* The inputs of one extract-images run: the compose_file argument, the
\* standard files that exist, shutil.which("docker"), the return code of
\* `docker compose convert`, and its output (unparsable, or a document).
\* A step that is never reached keeps its default.
ExistingSets == {{}, {"compose.yml"}, {"docker-compose.yml", "compose.yaml"}}

ComposeChoices ==
    {[compose_file |-> "stack.yml", existing |-> {}]}
        \cup {[compose_file |-> None, existing |-> e] : e \in ExistingSets}

BaseInput(c) ==
    [compose_file |-> c.compose_file, existing |-> c.existing,
     which |-> DockerPath, returncode |-> 0, yaml_error |-> FALSE,
     services |-> <<>>]

InputsFor(c) ==
    IF c.compose_file = None /\ find_compose_file(c.existing) = None
    THEN {BaseInput(c)}
    ELSE {[BaseInput(c) EXCEPT !.which = None],
          [BaseInput(c) EXCEPT !.returncode = 1],
          [BaseInput(c) EXCEPT !.yaml_error = TRUE]}
            \cup {[BaseInput(c) EXCEPT !.services = ss] : ss \in ServiceSeqs}

ExtractInputs == UNION {InputsFor(c) : c \in ComposeChoices}

\* Images files found before the first command.
InitialFiles ==
    {NoFile, File(<<>>), File(<<Newline, " ", Newline>>), File(<<"a", Newline>>),
     File(<<"b">>), File(<<" ", "b", " ", Newline, Newline, "a">>)}

NoRun == [cmd |-> "none", input |-> NoInput, written |-> <<>>, repeat |-> FALSE]

\* At the shell prompt, before any command.
InitCli ==
    /\ file \in InitialFiles
    /\ run = NoRun
    /\ console = <<>>
    /\ pc = "shell"
    /\ images = <<>>
    /\ world = <<>>
    /\ future = <<>>
    /\ keys = <<>>
    /\ tasks = NoTasks
    /\ j = 1
    /\ live = NoRender
    /\ raised = FALSE
    /\ exit_code = 0
    /\ late = <<>>

\* One run of extract-images.
ExtractImages ==
    /\ pc \in {"shell", "exited"}
    /\ \E inp \in ExtractInputs :
          LET r == extract_images(inp, file) IN
          /\ file' = r.file
          /\ console' = r.console
          /\ exit_code' = r.exit_code
          /\ run' = [cmd |-> "extract-images", input |-> inp,
                     written |-> r.written,
                     repeat |-> run.cmd = "extract-images" /\ run.input = inp]
    /\ pc' = "exited"
    /\ UNCHANGED <<images, world, future, keys, tasks, j, live, raised, late>>

\* pull-images up to the creation of the executor (lines 118-130).
PullImagesStart ==
    /\ pc \in {"shell", "exited"}
    /\ run' = PullRun
    /\ UNCHANGED file
    /\ IF file = NoFile
       THEN /\ console' = <<MsgNoFile>>
            /\ exit_code' = 1
            /\ pc' = "exited"
            /\ UNCHANGED <<images, world, future, keys, tasks, j, live, raised, late>>
       ELSE IF read_images(file.text) = <<>>
       THEN /\ console' = <<MsgNoPull>>
            /\ exit_code' = 0
            /\ pc' = "exited"
            /\ UNCHANGED <<images, world, future, keys, tasks, j, live, raised, late>>
       ELSE /\ images' = read_images(file.text)
            /\ world' \in [1..Len(read_images(file.text)) -> World]
            /\ future' = [f \in 1..Len(read_images(file.text)) |-> "none"]
            /\ late' = [k \in 1..Len(read_images(file.text)) |-> 0]
            /\ console' = <<>>
            /\ exit_code' = 0
            /\ pc' = "dispatch"
            /\ UNCHANGED <<keys, tasks, j, live, raised>>

NextCli == ExtractImages \/ PullImagesStart

SpecCli == InitCli /\ [][NextCli]_vars

\* ================================================================ claims
\* Row images of the table Live currently displays.
RowImages == [k \in 1..Len(live.table) |-> live.table[k].image]

Rendered == live.table # <<>>

Terminal(status) == status \in {"Success", "Failed"}

\* Does the same image occur on two lines of the images file?
HasRepeatedLine ==
    \E m, n \in 1..Len(images) : m # n /\ images[m] = images[n]

\* C1: once the dispatch loop has run, the task table has exactly one task
\* per input line, in input order, and every rendered table shows these K
\* rows (repeated lines included).
C1_OneTaskPerLine ==
    /\ pc # "dispatch" => keys = images
    /\ Rendered => RowImages = images

\* C2: a pull that cannot be launched never raises out of pull_images; when
\* the command has exited, the task of every such pull is Failed.
C2_LaunchFailureIsFailed ==
    pc = "exited" =>
        /\ ~raised
        /\ \A img \in DOMAIN tasks :
              get_docker_executable(world[tasks[img].future]).raises
                  => tasks[img].status = "Failed"

\* C3: a task is created Running, and a step changes its status only from
\* Running to Success or Failed; a Success or Failed status never changes.
C3_Step ==
    \A img \in DOMAIN tasks' :
        IF img \in DOMAIN tasks
        THEN tasks'[img].status # tasks[img].status
                => /\ tasks[img].status = "Running"
                   /\ Terminal(tasks'[img].status)
        ELSE tasks'[img].status = "Running"

C3_StatusChangesOnce == [][C3_Step]_vars

\* C3 witness: a task is already Success or Failed and an update pass visits
\* it again.
C3_Witness ==
    /\ pc \in {"update", "final_update"}
    /\ Terminal(tasks[keys[j]].status)

\* C4: Success only when the task's pull completed with code 0, Failed only
\* when it completed with a non-zero code, and Running while it has not
\* completed.
C4_StatusMatchesExitCode ==
    \A img \in DOMAIN tasks :
        LET f == tasks[img].future
            st == tasks[img].status IN
        /\ st = "Success" =>
              done(f) /\ ~result(f).raises /\ result(f).returncode = 0
        /\ st = "Failed" =>
              done(f) /\ ~result(f).raises /\ result(f).returncode # 0
        /\ ~done(f) => st = "Running"

\* C4 witness: one task is Success and another is Failed.
C4_Witness ==
    \E a, b \in DOMAIN tasks :
        tasks[a].status = "Success" /\ tasks[b].status = "Failed"

\* The distinct elements of a sequence in order of first occurrence.
RECURSIVE FirstOccurrences(_)
FirstOccurrences(s) ==
    IF s = <<>> THEN <<>>
    ELSE LET head == FirstOccurrences(SubSeq(s, 1, Len(s) - 1))
             last == s[Len(s)] IN
         IF \E k \in 1..Len(head) : head[k] = last
         THEN head ELSE Append(head, last)

\* C5: every rendered table lists the tasks in the order in which their
\* images were first submitted, numbered from 1, whatever the order in which
\* the pulls completed.
C5_RowsInSubmissionOrder ==
    Rendered =>
        /\ RowImages = FirstOccurrences(images)
        /\ \A k \in 1..Len(live.table) : live.table[k].index = k

\* C5 witness: a rendered table in which a later row has finished while an
\* earlier row is still Running.
C5_Witness ==
    \E m, n \in 1..Len(live.table) :
        /\ m < n
        /\ live.table[m].status = StatusColored("Running")
        /\ live.table[n].status # StatusColored("Running")

\* C6: when pull_images has exited, the last table it rendered shows no
\* task as Running.
C6_FinalTableHasNoRunning ==
    pc = "exited" =>
        \A k \in 1..Len(live.table) :
            live.table[k].status # StatusColored("Running")

\* Every pull returns a CompletedProcess (none raises).
AllPullsReturn == \A f \in DOMAIN world : ~pull_image(world[f]).raises

\* C7: when every pull returns an exit code, pull_images reaches the final
\* render and then exits with code 0, whatever the exit codes were.
C7_TerminatesWithZero ==
    /\ (AllPullsReturn /\ pc = "dispatch") ~> (pc = "final_render")
    /\ AllPullsReturn ~> (pc = "exited" /\ exit_code = 0)

\* C7 witness: the command has exited with code 0 after a final render that
\* shows a failed pull.
C7_Witness ==
    /\ pc = "exited" /\ exit_code = 0
    /\ live.title = "All pulls finished"
    /\ \E k \in 1..Len(live.table) : live.table[k].status = StatusColored("Failed")

\* C8: when pull_images has exited, every pull it submitted has finished,
\* the pulls of repeated lines included.
C8_NoExitWhilePulling ==
    pc = "exited" => \A f \in DOMAIN future : future[f] = "finished"

\* C8 witness: the command has exited after an images file with a repeated
\* line, whose earlier pull no task tracks.
C8_Witness == pc = "exited" /\ HasRepeatedLine

\* all(data["future"].done() for data in tasks.values()), read at once.
AllTasksDone == \A img \in DOMAIN tasks : done(tasks[img].future)

AllTerminal == \A img \in DOMAIN tasks : Terminal(tasks[img].status)

\* C9 as stated: whenever the loop condition is evaluated, all-done is true
\* exactly when every task's status is Success or Failed.
C9_AllDoneIffAllTerminal ==
    pc = "check" => (AllTasksDone <=> AllTerminal)

\* C9 amended: the loop ends only when the pull of every task has completed,
\* and all-done is never false when every status is Success or Failed.
C9_AllDoneIffPullsCompleted ==
    /\ pc \in {"final_update", "final_render", "final_sleep"} => AllTasksDone
    /\ pc # "dispatch" /\ AllTerminal => AllTasksDone

\* C9 witness: the loop has ended on all-done while a task whose pull
\* returned is still Running.
C9_Witness ==
    /\ pc = "final_update"
    /\ \E img \in DOMAIN tasks :
          /\ tasks[img].status = "Running"
          /\ ~result(tasks[img].future).raises

\* Pulls submitted and not yet taken by a worker thread.
Queued == {f \in DOMAIN future : future[f] = "pending"}

\* C10 as stated: there is no cap, so a submitted pull never has to wait for
\* a running pull to complete: whenever a pull is queued, a worker can
\* start one.
C10_NoPullWaitsForAnother ==
    Queued # {} => NumRunning < max_workers

\* C10 amended: all pulls are submitted without waiting for any to finish,
\* at most max_workers of them run at the same time, and a queued pull can
\* start whenever fewer than max_workers are running.
C10_AtMostMaxWorkersRun ==
    /\ NumRunning <= max_workers
    /\ Queued # {} /\ NumRunning < max_workers
          => ENABLED (\E f \in DOMAIN future : WorkerStart(f))

\* C10 witness: every worker thread is busy and a submitted pull is queued.
C10_Witness == NumRunning = max_workers /\ Queued # {}

\* A step in which the status of img becomes Failed leaves the status of
\* every other task as it was.
C11_Step ==
    \A img \in DOMAIN tasks :
        (tasks[img].status = "Running" /\ tasks'[img].status = "Failed")
            => \A other \in DOMAIN tasks \ {img} :
                  tasks'[other].status = tasks[other].status

\* Every task has the status that its own return code determines.
EachHasOwnStatus ==
    /\ pc # "dispatch"
    /\ \A img \in DOMAIN tasks :
          tasks[img].status = StatusOf(result(tasks[img].future).returncode)

\* C11: a pull that resolves with a non-zero code changes only its own
\* task's status, to Failed, and (every pull returning a code) every task
\* still reaches the status its own return code determines.
C11_FailuresAreIsolated ==
    /\ [][C11_Step]_vars
    /\ AllPullsReturn ~> EachHasOwnStatus

\* C11 witness: one task is Failed while the pull of another task is still
\* in progress.
C11_Witness ==
    \E a, b \in DOMAIN tasks :
        /\ tasks[a].status = "Failed"
        /\ tasks[b].status = "Running"
        /\ future[tasks[b].future] = "running"

\* C18: the coordinating thread can always take its next step, except in
\* the executor's final join: in particular the final update pass never
\* calls result() on a pull that has not completed.
C18_NeverBlocksOnOnePull ==
    /\ pc \notin {"shutdown", "exited"} => ENABLED Coordinator
    /\ (pc = "final_update" /\ tasks[keys[j]].status = "Running")
          => done(tasks[keys[j]].future)

\* C18 witness: the final update pass reads the result of a completed pull
\* whose task is still Running.
C18_Witness ==
    /\ pc = "final_update"
    /\ tasks[keys[j]].status = "Running"
    /\ done(tasks[keys[j]].future)
    /\ j = Len(keys)

\* C19: for every task, at most one table rendered after its pull completed
\* shows it as Running.
C19_AtMostOneLateFrame ==
    \A k \in DOMAIN late : late[k] <= 1

\* C19 witness: a table rendered after a pull completed shows its task as
\* Running, and a later table shows it as Success or Failed.
C19_Witness ==
    \E k \in DOMAIN late :
        /\ late[k] = 1
        /\ k \in DOMAIN live.table
        /\ live.table[k].status # StatusColored("Running")

\* ----------------------------------------------- claims on the two commands
\* The run recorded in r is an extract-images run that got a parsed document.
GotDocument(r) ==
    /\ r.cmd = "extract-images"
    /\ r.input.compose_file # None
          \/ \E name \in r.input.existing :
                \E k \in 1..Len(standard_files) : standard_files[k] = name
    /\ r.input.which # None
    /\ r.input.returncode = 0
    /\ ~r.input.yaml_error

\* Positions of the services that declare an image.
Declaring(svcs) == {k \in 1..Len(svcs) : "image" \in DOMAIN svcs[k]}

\* The first service that declares the image x.
FirstDeclaring(svcs, x) ==
    CHOOSE k \in Declaring(svcs) :
        /\ svcs[k].image = x
        /\ \A m \in Declaring(svcs) : svcs[m].image = x => k <= m

\* C12: the list extract-images writes holds every declared image exactly
\* once and nothing else, ordered by the first service declaring each, and
\* the output file is that list, one image per line.
C12_UniqueInFirstOccurrenceOrder ==
    GotDocument(run) =>
        LET out == run.written
            svcs == run.input.services IN
        /\ \A k \in Declaring(svcs) :
              Cardinality({p \in 1..Len(out) : out[p] = svcs[k].image}) = 1
        /\ \A p \in 1..Len(out) : \E k \in Declaring(svcs) : svcs[k].image = out[p]
        /\ \A p, q \in 1..Len(out) :
              p < q <=> FirstDeclaring(svcs, out[p]) < FirstDeclaring(svcs, out[q])
        /\ Declaring(svcs) # {} => file = File(join(<<Newline>>, out))

\* C12 witness: an image declared by two services, the second after a
\* service declaring another image, was written once.
C12_Witness ==
    /\ GotDocument(run)
    /\ Len(run.written) = 2
    /\ \E k, m \in Declaring(run.input.services) :
          /\ k + 1 < m
          /\ run.input.services[k].image = run.input.services[m].image

\* C13: when pull-images runs right after an extract-images run that wrote
\* the file, the images it reads are the list that was written, in order.
C13_Step ==
    (GotDocument(run) /\ run.written # <<>> /\ run'.cmd = "pull-images")
        => pc' = "dispatch" /\ images' = run.written

C13_PullReadsWhatExtractWrote == [][C13_Step]_vars

\* C13 witness: pull-images has read a file of two lines that the extract-images
\* run before it wrote over a different file.
C13_Witness ==
    /\ run.cmd = "pull-images"
    /\ pc = "dispatch"
    /\ images = <<(<<"b">>), (<<"a">>)>>
    /\ file = File(<<"b", Newline, "a">>)

\* The three failures of extract-images named by C14.
NoComposeFound(inp) ==
    inp.compose_file = None /\ find_compose_file(inp.existing) = None

ResolveFailed(inp) ==
    ~NoComposeFound(inp) /\ inp.which # None /\ inp.returncode # 0

ParseFailed(inp) ==
    ~NoComposeFound(inp) /\ inp.which # None /\ inp.returncode = 0
        /\ inp.yaml_error

\* C14: an extract-images run without a compose file, with a failing resolve
\* command or with unparsable output exits with code 1, prints the error
\* message of that case and leaves the output file as it was.
C14_Step ==
    run'.cmd = "extract-images" =>
        LET inp == run'.input
            Fails(msg) == /\ exit_code' = 1
                          /\ console'[Len(console')] = msg
                          /\ file' = file IN
        /\ NoComposeFound(inp) => Fails(MsgNoCompose)
        /\ ResolveFailed(inp) => Fails(MsgConvert)
        /\ ParseFailed(inp) => Fails(MsgYaml)

C14_FailuresExitOne == [][C14_Step]_vars

\* C14 witness: a run whose resolve command failed has ended with code 1 and
\* the file written by an earlier run is still there.
C14_Witness ==
    /\ run.cmd = "extract-images"
    /\ ResolveFailed(run.input)
    /\ exit_code = 1
    /\ file = File(<<"a", Newline, "b">>)

\* C15: when no service declares an image, extract-images prints the
\* no-images message and not the success message, exits 0 and leaves the
\* output file as it was.
C15_Step ==
    (run'.cmd = "extract-images" /\ GotDocument(run')
            /\ Declaring(run'.input.services) = {})
        => /\ exit_code' = 0
           /\ \E p \in 1..Len(console') : console'[p] = MsgNoImages
           /\ \A p \in 1..Len(console') : console'[p] # MsgExtracted
           /\ file' = file

C15_NoImagesLeavesFile == [][C15_Step]_vars

\* C15 witness: a run on a document whose services declare no image has
\* ended and the output file still does not exist.
C15_Witness ==
    /\ GotDocument(run)
    /\ Len(run.input.services) > 0
    /\ Declaring(run.input.services) = {}
    /\ file = NoFile

\* The text has no non-blank line.
OnlyBlankLines(text) == \A k \in 1..Len(text) : text[k] \in Whitespace

NothingDispatched ==
    /\ tasks = NoTasks
    /\ \A f \in DOMAIN future : future[f] = "none"
    /\ pc = "exited"

\* C16: pull-images exits 1 when the images file does not exist and exits 0
\* with a message when it has no non-blank line; in both cases it creates no
\* task and dispatches no pull.
C16_NoFileOrNoLines ==
    run.cmd = "pull-images" =>
        /\ file = NoFile =>
              exit_code = 1 /\ console = <<MsgNoFile>> /\ NothingDispatched
        /\ (file # NoFile /\ OnlyBlankLines(file.text)) =>
              exit_code = 0 /\ console = <<MsgNoPull>> /\ NothingDispatched

\* C16 witness: pull-images has exited 0 on a file that holds blank lines
\* only.
C16_Witness ==
    /\ run.cmd = "pull-images"
    /\ file.exists /\ file.text # <<>> /\ OnlyBlankLines(file.text)
    /\ exit_code = 0
    /\ pc = "exited"

\* C17: an extract-images run that repeats the run before it, on the same
\* inputs, leaves the output file as the first run left it.
C17_Step ==
    (run'.cmd = "extract-images" /\ run'.repeat) => file' = file

C17_ExtractionIsIdempotent == [][C17_Step]_vars

\* C17 witness: the second of two equal runs that write the file has ended.
C17_Witness ==
    /\ run.cmd = "extract-images"
    /\ run.repeat
    /\ Len(run.written) = 2

====
